---------------------------- MODULE Spec2Model ----------------------------
(***************************************************************************)
(* A model of five parts of the repository:                                 *)
(*                                                                         *)
(*   SpecNSD  nnunet/evaluation/surface_dice.py: normalized_surface_dice   *)
(*   SpecNet  NexToU_Encoder_Decoder.py: construction and forward pass of  *)
(*            NexToU_Encoder and NexToU_Decoder                            *)
(*   SpecWin  NexToU_Encoder_Decoder.py: window_partition, window_reverse  *)
(*   SpecGnn  NexToU_Encoder_Decoder.py: the parameters PoolGNNBlocks and   *)
(*            SwinGNNBlocks derive, PoolGrapher and PoolDyGraphConv        *)
(*   SpecMR   NexToU_Encoder_Decoder.py: MRConv.forward                    *)
(*                                                                         *)
(* Each specification draws the inputs of the functions it is about in     *)
(* its initial states and applies the functions in its actions.  The       *)
(* variables of the other parts stay at their idle values.                 *)
(***************************************************************************)
EXTENDS Integers, Sequences, FiniteSets

VARIABLES
    pc,         \* position of the caller
    a, b,       \* normalized_surface_dice: the two images (sets of foreground cells)
    threshold,  \* normalized_surface_dice: the threshold, in mm
    spacing,    \* normalized_surface_dice: None or one entry per axis
    nsd,        \* normalized_surface_dice: what the call computed
    cfg,        \* the constructor arguments of encoder and decoder
    enc,        \* the NexToU_Encoder object
    dec,        \* the NexToU_Decoder object
    enc_ret,    \* what NexToU_Encoder.forward returned
    fwd,        \* the locals of a running NexToU_Decoder.forward
    dec_ret,    \* what NexToU_Decoder.forward returned
    win,        \* window_partition / window_reverse: input, windows, result
    gnn,        \* the graph blocks of one encoder stage: arguments, parameters, node counts
    mr          \* MRConv.forward: x, y, edge_index and the tensor handed to self.nn

vars == <<pc, a, b, threshold, spacing, nsd, cfg, enc, dec, enc_ret, fwd, dec_ret, win,
          gnn, mr>>

nsdVars == <<a, b, threshold, spacing, nsd>>
netVars == <<cfg, enc, dec, enc_ret, fwd, dec_ret>>
winVars == <<win>>
graphVars == <<gnn, mr>>

None == "None"

RECURSIVE Prod(_)
Prod(s) == IF Len(s) = 0 THEN 1 ELSE Head(s) * Prod(Tail(s))

Reverse(s) == [i \in 1..Len(s) |-> s[Len(s) + 1 - i]]

(***************************************************************************)
(* normalized_surface_dice                                                 *)
(***************************************************************************)

\* The images of the model are 2D arrays of 2 rows and GridW columns.
GridW == 2
MaxThreshold == 2
MaxSpacing == 2

Shape == <<2, GridW>>

Cells == (0..(Shape[1] - 1)) \X (0..(Shape[2] - 1))

\* An image is given by its set of nonzero cells.
Images == SUBSET Cells

\* thresholds: a negative one, zero, and the positive ones up to MaxThreshold
Thresholds == (-1)..MaxThreshold

\* spacing=None is the empty tuple
NoSpacing == <<>>

Spacings == {NoSpacing} \cup [1..Len(Shape) -> 1..MaxSpacing]

\* scipy's binary_erosion with the structure generate_binary_structure(ndim, 1)
\* (the cell and its neighbours along each axis) and border_value 0
Neighbours(p) ==
    {<<p[1] - 1, p[2]>>, <<p[1] + 1, p[2]>>, <<p[1], p[2] - 1>>, <<p[1], p[2] + 1>>}

binary_erosion(img) == {p \in img : Neighbours(p) \subseteq img}

\* result ^ binary_erosion(result)
Border(img) == img \ binary_erosion(img)

\* squared euclidean distance of two cells under a sampling
Dist2(p, q, sp) ==
    (sp[1] * (p[1] - q[1])) * (sp[1] * (p[1] - q[1]))
    + (sp[2] * (p[2] - q[2])) * (sp[2] * (p[2] - q[2]))

\* distance_transform_edt(~reference_border, sampling)[p], squared
EDT2(p, refBorder, sp) ==
    LET ds == {Dist2(p, q, sp) : q \in refBorder}
    IN  CHOOSE d \in ds : \A e \in ds : d <= e

\* medpy's __surface_distances(result, reference, voxelspacing, 1): for every
\* border cell of result its distance to the nearest border cell of
\* reference.  The distances are kept squared; an image without object
\* raises.
surface_distances(result, reference, sp) ==
    IF result = {} \/ reference = {}
    THEN [err |-> TRUE, sds |-> [p \in {} |-> 0]]
    ELSE [err |-> FALSE,
          sds |-> [p \in Border(result) |-> EDT2(p, Border(reference), sp)]]

\* d <= t for a distance d >= 0 given by its square d2
LeqThreshold(d2, t) == t >= 0 /\ d2 <= t * t

\* d < t for a distance d >= 0 given by its square d2
BelowThreshold(d2, t) == t > 0 /\ d2 < t * t

\* np.sum(sds <= t) and np.sum(sds > t)
CountLeq(sds, t) == Cardinality({p \in DOMAIN sds : LeqThreshold(sds[p], t)})
CountGt(sds, t) == Cardinality({p \in DOMAIN sds : ~LeqThreshold(sds[p], t)})

DefaultSpacingTwo(img_shape) == [i \in 1..Len(img_shape) |-> 2]

\* spacing = tuple([1 for _ in range(len(a.shape))])
DefaultSpacing(img_shape) == [i \in 1..Len(img_shape) |-> 1]

NSDError == [err |-> TRUE, tp_a |-> 0, tp_b |-> 0, fp |-> 0, fn |-> 0, dc |-> <<0, 0>>]

\* a plausible slip: only the distances from a to b count as true positives
normalized_surface_dice_OneSided(ia, ib, t, sp) ==
    LET s == IF sp = NoSpacing THEN DefaultSpacing(Shape) ELSE sp
        a_to_b == surface_distances(ia, ib, s)
        b_to_a == surface_distances(ib, ia, s)
    IN  IF a_to_b.err \/ b_to_a.err THEN NSDError
        ELSE LET tp_a == CountLeq(a_to_b.sds, t)
                 tp_b == CountLeq(b_to_a.sds, t)
                 fp == CountGt(a_to_b.sds, t)
                 fn == CountGt(b_to_a.sds, t)
             IN  [err |-> FALSE, tp_a |-> tp_a, tp_b |-> tp_b, fp |-> fp, fn |-> fn,
                  dc |-> <<tp_a, tp_a + tp_b + fp + fn>>]

\* The result keeps the four counts; dc is the fraction <<numerator, denominator>>.
normalized_surface_dice(ia, ib, t, sp) ==
    LET s == IF sp = NoSpacing THEN DefaultSpacing(Shape) ELSE sp
        a_to_b == surface_distances(ia, ib, s)
        b_to_a == surface_distances(ib, ia, s)
    IN  IF a_to_b.err \/ b_to_a.err THEN NSDError
        ELSE LET tp_a == CountLeq(a_to_b.sds, t)
                 tp_b == CountLeq(b_to_a.sds, t)
                 fp == CountGt(a_to_b.sds, t)
                 fn == CountGt(b_to_a.sds, t)
             IN  [err |-> FALSE, tp_a |-> tp_a, tp_b |-> tp_b, fp |-> fp, fn |-> fn,
                  dc |-> <<tp_a + tp_b, tp_a + tp_b + fp + fn>>]

(***************************************************************************)
(* NexToU_Encoder and NexToU_Decoder                                       *)
(*                                                                         *)
(* Stage numbers s are those of the code (0-based); sequence positions are *)
(* s + 1.  A module is a record of the arguments it was built with, a      *)
(* tensor is the record of the modules it went through (hist), its number  *)
(* of channels (ch) and the factor by which it is smaller than the network *)
(* input (down).                                                           *)
(***************************************************************************)

MaxStages == 5

\* n_stages - 4 and n_swin_gnn_stages = 0 of both constructors
GnnStageCount == 4
n_swin_gnn_stages == 0

StrideChoices == {1, 2}
PoolTypes == {"conv", "avg", "max"}

\* seq[i] of Python, i negative or not
PyIdx(seq, i) == IF i >= 0 THEN seq[i + 1] ELSE seq[Len(seq) + i + 1]

\* the position (0-based) that Python's seq[i] reads
PyPos(seq, i) == IF i >= 0 THEN i ELSE Len(seq) + i

NoPool == 0
NoArg == -1

ResidualBlocks(n_blocks, in_ch, out_ch, stride) ==
    [kind |-> "StackedResidualBlocks", n |-> n_blocks, in_ch |-> in_ch,
     out_ch |-> out_ch, stride |-> stride, index |-> NoArg, stage_num |-> NoArg,
     level |-> NoArg]

\* PoolGNNBlocks(channels, img_shape_list[level], index, stage_num, ...)
PoolGNN(channels, level, index, stage_num) ==
    [kind |-> "PoolGNNBlocks", n |-> 0, in_ch |-> channels, out_ch |-> channels,
     stride |-> 1, index |-> index, stage_num |-> stage_num, level |-> level]

\* SwinGNNBlocks(channels, img_shape_list[level], index, ...)
SwinGNN(channels, level, index) ==
    [kind |-> "SwinGNNBlocks", n |-> 0, in_ch |-> channels, out_ch |-> channels,
     stride |-> 1, index |-> index, stage_num |-> NoArg, level |-> level]

\* pool_op = get_matching_pool_op(...) if pool_type != 'conv' else None
HasPoolOp(pool_type) == pool_type # "conv"

\* a slip: the convolution keeps its stride although a pooling precedes it
StrideForConvAlways(c, s) == c.strides[s + 1]

\* stride_for_conv = strides[s] if pool_op is None else 1
StrideForConv(c, s) == IF ~HasPoolOp(c.pool_type) THEN c.strides[s + 1] ELSE 1

\* a slip: the pooled graph blocks start one stage late
EncoderStageBlocksLate(c, s, input_channels) ==
    LET no_pool_gnn_stage_num == c.n_stages - GnnStageCount
        f == c.features_per_stage[s + 1]
        nb == c.n_blocks_per_stage[s + 1]
    IN  IF s <= no_pool_gnn_stage_num
        THEN <<ResidualBlocks(nb, input_channels, f, StrideForConv(c, s))>>
        ELSE <<ResidualBlocks(nb - 1, input_channels, f, StrideForConv(c, s)),
               PoolGNN(f, s, s - no_pool_gnn_stage_num, no_pool_gnn_stage_num),
               SwinGNN(f, s, s - no_pool_gnn_stage_num)>>

\* the modules of encoder stage s, without the pooling in front of them
EncoderStageBlocks(c, s, input_channels) ==
    LET no_pool_gnn_stage_num == c.n_stages - GnnStageCount
        n_conv_stages == no_pool_gnn_stage_num - n_swin_gnn_stages
        f == c.features_per_stage[s + 1]
        nb == c.n_blocks_per_stage[s + 1]
    IN  IF s < n_conv_stages
        THEN <<ResidualBlocks(nb, input_channels, f, StrideForConv(c, s))>>
        ELSE IF s < no_pool_gnn_stage_num
        THEN <<ResidualBlocks(nb - 1, input_channels, f, StrideForConv(c, s)),
               SwinGNN(f, s, s - n_conv_stages)>>
        ELSE <<ResidualBlocks(nb - 1, input_channels, f, StrideForConv(c, s)),
               PoolGNN(f, s, s - no_pool_gnn_stage_num, no_pool_gnn_stage_num),
               SwinGNN(f, s, s - n_conv_stages)>>

\* if pool_op is not None: stage = nn.Sequential(pool_op(strides[s]), stage)
EncoderStage(c, s, input_channels) ==
    [pool |-> IF HasPoolOp(c.pool_type) THEN c.strides[s + 1] ELSE NoPool,
     blocks |-> EncoderStageBlocks(c, s, input_channels)]

\* a slip: the stem is built with the stride of the first stage
EncoderStemStrided(c) ==
    IF ~c.disable_default_stem
    THEN [present |-> TRUE, n_convs |-> 1, in_ch |-> c.input_channels,
          out_ch |-> IF c.stem_channels = NoArg THEN c.features_per_stage[1]
                     ELSE c.stem_channels,
          stride |-> c.strides[1]]
    ELSE [present |-> FALSE, n_convs |-> 0, in_ch |-> 0, out_ch |-> 0, stride |-> 1]

\* the stem StackedConvBlocks(1, conv_op, input_channels, stem_channels,
\* kernel_sizes[0], 1, ...), or present = FALSE for self.stem = None
EncoderStem(c) ==
    IF ~c.disable_default_stem
    THEN [present |-> TRUE, n_convs |-> 1, in_ch |-> c.input_channels,
          out_ch |-> IF c.stem_channels = NoArg THEN c.features_per_stage[1]
                     ELSE c.stem_channels,
          stride |-> 1]
    ELSE [present |-> FALSE, n_convs |-> 0, in_ch |-> 0, out_ch |-> 0, stride |-> 1]

\* a slip: input_channels = stem_channels is forgotten after the stem
NexToU_Encoder_init_RawInput(c) ==
    [stem |-> EncoderStem(c),
     stages |-> [k \in 1..c.n_stages |->
                    EncoderStage(c, k - 1,
                        IF k = 1 THEN c.input_channels ELSE c.features_per_stage[k - 1])],
     output_channels |-> c.features_per_stage,
     strides |-> c.strides,
     return_skips |-> c.return_skips]

\* NexToU_Encoder.__init__
NexToU_Encoder_init(c) ==
    LET stem == EncoderStem(c)
        first_in == IF stem.present THEN stem.out_ch ELSE c.input_channels
    IN  [stem |-> stem,
         stages |-> [k \in 1..c.n_stages |->
                        EncoderStage(c, k - 1,
                            IF k = 1 THEN first_in ELSE c.features_per_stage[k - 1])],
         output_channels |-> c.features_per_stage,
         strides |-> c.strides,
         return_skips |-> c.return_skips]

InputTensor(c) == [hist |-> <<>>, ch |-> c.input_channels, down |-> 1]

Op(m, i) == [m |-> m, i |-> i]

\* x = self.stem(x)
ApplyStem(stem, x) ==
    [hist |-> Append(x.hist, Op("encoder.stem", 0)), ch |-> stem.out_ch,
     down |-> x.down * stem.stride]

\* x = s(x) for s = self.stages[s_i]: the pooling, if any, then the blocks
ApplyEncoderStage(stage, s_i, x) ==
    LET pool == IF stage.pool = NoPool THEN 1 ELSE stage.pool
    IN  [hist |-> Append(x.hist, Op("encoder.stages", s_i)),
         ch |-> stage.blocks[Len(stage.blocks)].out_ch,
         down |-> x.down * pool * Prod([j \in 1..Len(stage.blocks) |-> stage.blocks[j].stride])]

\* the list ret after the stages 0 .. upto - 1 ran on x
RECURSIVE EncoderRun(_, _, _)
EncoderRun(e, x, upto) ==
    IF upto = 0 THEN <<>>
    ELSE LET before == EncoderRun(e, x, upto - 1)
             input == IF upto = 1 THEN x ELSE before[upto - 1]
         IN  Append(before, ApplyEncoderStage(e.stages[upto], upto - 1, input))

\* a slip: return_skips=False returns the first stage's output
NexToU_Encoder_forward_First(e, x) ==
    LET x0 == IF e.stem.present THEN ApplyStem(e.stem, x) ELSE x
        ret == EncoderRun(e, x0, Len(e.stages))
    IN  IF e.return_skips THEN ret ELSE ret[1]

\* NexToU_Encoder.forward: the list ret, or ret[-1]
NexToU_Encoder_forward(e, x) ==
    LET x0 == IF e.stem.present THEN ApplyStem(e.stem, x) ELSE x
        ret == EncoderRun(e, x0, Len(e.stages))
    IN  IF e.return_skips THEN ret ELSE PyIdx(ret, -1)

\* the modules of the decoder stage built in iteration s (1 .. n_stages_encoder - 1)
DecoderStageBlocks(e, c, s) ==
    LET n_stages_encoder == Len(e.output_channels)
        no_pool_gnn_stage_num == n_stages_encoder - GnnStageCount
        n_conv_stages == no_pool_gnn_stage_num - n_swin_gnn_stages
        input_features_skip == PyIdx(e.output_channels, -(s + 1))
        nc == c.n_conv_per_stage[s]
        level == n_stages_encoder - (s + 1)
    IN  IF s < n_stages_encoder - no_pool_gnn_stage_num
        THEN <<ResidualBlocks(nc - 1, 2 * input_features_skip, input_features_skip, 1),
               PoolGNN(input_features_skip, level,
                       n_stages_encoder - no_pool_gnn_stage_num - (s + 1),
                       no_pool_gnn_stage_num),
               SwinGNN(input_features_skip, level,
                       n_stages_encoder - n_conv_stages - (s + 1))>>
        ELSE IF s < n_stages_encoder - n_conv_stages
        THEN <<ResidualBlocks(nc - 1, 2 * input_features_skip, input_features_skip, 1),
               SwinGNN(input_features_skip, level,
                       n_stages_encoder - n_conv_stages - (s + 1))>>
        ELSE <<ResidualBlocks(nc, 2 * input_features_skip, input_features_skip, 1)>>

\* transpconv_op(input_features_below, input_features_skip, stride, stride)
DecoderTranspConv(e, s) ==
    [in_ch |-> PyIdx(e.output_channels, -s),
     out_ch |-> PyIdx(e.output_channels, -(s + 1)),
     stride |-> PyIdx(e.strides, -s)]

\* encoder.conv_op(input_features_skip, num_classes, 1, 1, 0, bias=True)
DecoderSegLayer(e, c, s) ==
    [in_ch |-> PyIdx(e.output_channels, -(s + 1)), out_ch |-> c.num_classes]

\* a slip: the segmentation layers of the lower stages are built only for
\* deep supervision
NexToU_Decoder_init_SegOnDemand(e, c) ==
    LET n_stages_encoder == Len(e.output_channels)
    IN  [deep_supervision |-> c.deep_supervision,
         num_classes |-> c.num_classes,
         stages |-> [s \in 1..(n_stages_encoder - 1) |-> DecoderStageBlocks(e, c, s)],
         transpconvs |-> [s \in 1..(n_stages_encoder - 1) |-> DecoderTranspConv(e, s)],
         seg_layers |-> IF c.deep_supervision
                        THEN [s \in 1..(n_stages_encoder - 1) |-> DecoderSegLayer(e, c, s)]
                        ELSE <<DecoderSegLayer(e, c, n_stages_encoder - 1)>>]

\* NexToU_Decoder.__init__: for s in range(1, n_stages_encoder)
NexToU_Decoder_init(e, c) ==
    LET n_stages_encoder == Len(e.output_channels)
    IN  [deep_supervision |-> c.deep_supervision,
         num_classes |-> c.num_classes,
         stages |-> [s \in 1..(n_stages_encoder - 1) |-> DecoderStageBlocks(e, c, s)],
         transpconvs |-> [s \in 1..(n_stages_encoder - 1) |-> DecoderTranspConv(e, s)],
         seg_layers |-> [s \in 1..(n_stages_encoder - 1) |-> DecoderSegLayer(e, c, s)]]

\* the encoder stage a skip tensor came out of
ProducedBy(x) == x.hist[Len(x.hist)].i

\* x = self.transpconvs[s](lres_input)
ApplyTranspConv(d, s, x) ==
    [hist |-> Append(x.hist, Op("decoder.transpconvs", s)),
     ch |-> d.transpconvs[s + 1].out_ch,
     down |-> x.down \div d.transpconvs[s + 1].stride]

\* x = torch.cat((x, skip), 1)
Cat(x, skip) ==
    [hist |-> Append(x.hist, Op("cat", ProducedBy(skip))),
     ch |-> x.ch + skip.ch,
     down |-> x.down]

\* x = self.stages[s](x)
ApplyDecoderStage(d, s, x) ==
    [hist |-> Append(x.hist, Op("decoder.stages", s)),
     ch |-> d.stages[s + 1][Len(d.stages[s + 1])].out_ch,
     down |-> x.down]

\* self.seg_layers[i](x), i negative or not
ApplySegLayer(d, i, x) ==
    [hist |-> Append(x.hist, Op("decoder.seg_layers", PyPos(d.seg_layers, i))),
     ch |-> PyIdx(d.seg_layers, i).out_ch,
     down |-> x.down]

\* a slip: the stage reads the skip of its own number from the top
SkipIndexFromTop(s) == s

\* the index of skips[-(s+2)]
SkipIndex(s) == -(s + 2)

\* a slip: the outputs are returned in the order they were computed
DecoderResultInOrder(d, seg_outputs) ==
    IF ~d.deep_supervision THEN seg_outputs[Len(seg_outputs)] ELSE seg_outputs

\* seg_outputs = seg_outputs[::-1]; r = seg_outputs[0] or seg_outputs
DecoderResult(d, seg_outputs) ==
    LET inverted == Reverse(seg_outputs)
    IN  IF ~d.deep_supervision THEN inverted[1] ELSE inverted

NBlocksChoices == {1, 2}
StemChannelChoices == {NoArg, 3}

\* the constructor arguments the model draws from
Configs ==
    UNION {
        [n_stages : {n},
         strides : [1..n -> StrideChoices],
         pool_type : PoolTypes,
         return_skips : BOOLEAN,
         disable_default_stem : BOOLEAN,
         stem_channels : StemChannelChoices,
         deep_supervision : BOOLEAN,
         input_channels : {1},
         num_classes : {2},
         features_per_stage : {[k \in 1..n |-> 8 * k]},
         n_blocks_per_stage : {[k \in 1..n |-> nb] : nb \in NBlocksChoices},
         n_conv_per_stage : {[k \in 1..(n - 1) |-> nb] : nb \in NBlocksChoices}]
        : n \in GnnStageCount..MaxStages}

(***************************************************************************)
(* window_partition and window_reverse                                     *)
(*                                                                         *)
(* A tensor is its shape and the function from its indices (0-based, one   *)
(* per axis) to its elements.  The elements of an input are labelled by    *)
(* their own index, so that two tensors are equal exactly when every       *)
(* element sits at the same place.                                         *)
(***************************************************************************)

MaxWindow == 2

BatchChoices == {1, 2}
ChannelChoices == {1, 2}
\* windows per axis
CountChoices == {1, 2}

Indices(shape) ==
    IF Len(shape) = 4
    THEN (0..(shape[1] - 1)) \X (0..(shape[2] - 1)) \X (0..(shape[3] - 1))
         \X (0..(shape[4] - 1))
    ELSE (0..(shape[1] - 1)) \X (0..(shape[2] - 1)) \X (0..(shape[3] - 1))
         \X (0..(shape[4] - 1)) \X (0..(shape[5] - 1))

\* x.permute(*dims): axis i of the result is axis dims[i] of x
Permute(t, dims) ==
    LET k == Len(dims)
        shape == [i \in 1..k |-> t.shape[dims[i] + 1]]
        Source(idx) == [j \in 1..k |-> idx[CHOOSE i \in 1..k : dims[i] + 1 = j]]
    IN  [shape |-> shape, at |-> [idx \in Indices(shape) |-> t.at[Source(idx)]]]

\* rearrange(x, 'b (h p1) (w p2) c -> (b h w) p1 p2 c', p1=, p2=, c=C)
RearrangeToWindows2D(t, p) ==
    LET h == t.shape[2] \div p[1]
        w == t.shape[3] \div p[2]
        shape == <<t.shape[1] * h * w, p[1], p[2], t.shape[4]>>
    IN  [shape |-> shape,
         at |-> [idx \in Indices(shape) |->
                    t.at[<<idx[1] \div (h * w),
                           ((idx[1] \div w) % h) * p[1] + idx[2],
                           (idx[1] % w) * p[2] + idx[3],
                           idx[4]>>]]]

\* rearrange(x, 'b (s p1) (h p2) (w p3) c -> (b s h w) p1 p2 p3 c', ...)
RearrangeToWindows3D(t, p) ==
    LET sl == t.shape[2] \div p[1]
        h == t.shape[3] \div p[2]
        w == t.shape[4] \div p[3]
        shape == <<t.shape[1] * sl * h * w, p[1], p[2], p[3], t.shape[5]>>
    IN  [shape |-> shape,
         at |-> [idx \in Indices(shape) |->
                    t.at[<<idx[1] \div (sl * h * w),
                           ((idx[1] \div (h * w)) % sl) * p[1] + idx[2],
                           ((idx[1] \div w) % h) * p[2] + idx[3],
                           (idx[1] % w) * p[3] + idx[4],
                           idx[5]>>]]]

\* rearrange(windows, '(b h w) p1 p2 c -> b (h p1) (w p2) c', b=B, h=, w=)
RearrangeFromWindows2D(t, p, B, h, w) ==
    LET shape == <<B, h * p[1], w * p[2], t.shape[4]>>
    IN  [shape |-> shape,
         at |-> [idx \in Indices(shape) |->
                    t.at[<<(idx[1] * h + idx[2] \div p[1]) * w + idx[3] \div p[2],
                           idx[2] % p[1],
                           idx[3] % p[2],
                           idx[4]>>]]]

\* rearrange(windows, '(b s h w) p1 p2 p3 c -> b (s p1) (h p2) (w p3) c', ...)
RearrangeFromWindows3D(t, p, B, sl, h, w) ==
    LET shape == <<B, sl * p[1], h * p[2], w * p[3], t.shape[5]>>
    IN  [shape |-> shape,
         at |-> [idx \in Indices(shape) |->
                    t.at[<<((idx[1] * sl + idx[2] \div p[1]) * h + idx[3] \div p[2]) * w
                               + idx[4] \div p[3],
                           idx[2] % p[1],
                           idx[3] % p[2],
                           idx[4] % p[3],
                           idx[5]>>]]]

\* window_partition(x, window_size)
window_partition(x, window_size) ==
    IF Len(x.shape) = 4
    THEN Permute(RearrangeToWindows2D(Permute(x, <<0, 2, 3, 1>>), window_size),
                 <<0, 3, 1, 2>>)
    ELSE Permute(RearrangeToWindows3D(Permute(x, <<0, 2, 3, 4, 1>>), window_size),
                 <<0, 4, 1, 2, 3>>)

\* a slip: the windows of a row and of a column change places, '(b w h) ...'
window_reverse_Transposed(windows, window_size, size_tuple) ==
    IF Len(windows.shape) = 4
    THEN LET H == size_tuple[1]
             W == size_tuple[2]
             B == windows.shape[1]
                  \div (((H * W) \div window_size[1]) \div window_size[2])
             h == H \div window_size[1]
             w == W \div window_size[2]
             t == Permute(windows, <<0, 2, 3, 1>>)
             shape == <<B, H, W, t.shape[4]>>
             r == [shape |-> shape,
                   at |-> [idx \in Indices(shape) |->
                              t.at[<<(idx[1] * w + idx[3] \div window_size[2]) * h
                                         + idx[2] \div window_size[1],
                                     idx[2] % window_size[1],
                                     idx[3] % window_size[2],
                                     idx[4]>>]]]
         IN  Permute(r, <<0, 3, 1, 2>>)
    ELSE LET S == size_tuple[1]
             H == size_tuple[2]
             W == size_tuple[3]
             B == windows.shape[1]
                  \div ((((S * H * W) \div window_size[1]) \div window_size[2])
                        \div window_size[3])
         IN  Permute(RearrangeFromWindows3D(Permute(windows, <<0, 2, 3, 4, 1>>),
                                            window_size, B, S \div window_size[1],
                                            W \div window_size[3], H \div window_size[2]),
                     <<0, 4, 1, 2, 3>>)

\* window_reverse(windows, window_size, size_tuple)
window_reverse(windows, window_size, size_tuple) ==
    IF Len(windows.shape) = 4
    THEN LET H == size_tuple[1]
             W == size_tuple[2]
             B == windows.shape[1]
                  \div (((H * W) \div window_size[1]) \div window_size[2])
         IN  Permute(RearrangeFromWindows2D(Permute(windows, <<0, 2, 3, 1>>),
                                            window_size, B, H \div window_size[1],
                                            W \div window_size[2]),
                     <<0, 3, 1, 2>>)
    ELSE LET S == size_tuple[1]
             H == size_tuple[2]
             W == size_tuple[3]
             B == windows.shape[1]
                  \div ((((S * H * W) \div window_size[1]) \div window_size[2])
                        \div window_size[3])
         IN  Permute(RearrangeFromWindows3D(Permute(windows, <<0, 2, 3, 4, 1>>),
                                            window_size, B, S \div window_size[1],
                                            H \div window_size[2], W \div window_size[3]),
                     <<0, 4, 1, 2, 3>>)

\* the tensor of a shape whose elements are labelled by their index
Labelled(shape) == [shape |-> shape, at |-> [idx \in Indices(shape) |-> idx]]

NoTensor == [shape |-> <<>>, at |-> <<>>]

\* the inputs: 2D and 3D, every spatial size a multiple of the window size
WindowInputs ==
    UNION {
        {[x |-> Labelled(<<bc[1], bc[2]>> \o [i \in 1..dim |-> cnt[i] * ws[i]]),
          window_size |-> ws, windows |-> NoTensor, back |-> NoTensor]
            : bc \in BatchChoices \X ChannelChoices,
              ws \in [1..dim -> 1..MaxWindow],
              cnt \in [1..dim -> CountChoices]}
        : dim \in {2, 3}}

(***************************************************************************)
(* The graph blocks of an encoder stage                                    *)
(*                                                                         *)
(* NexToU_Encoder.__init__ derives the feature-map shape of every stage    *)
(* from patch_size and strides and hands it, with the smallest shape, to   *)
(* PoolGNNBlocks and SwinGNNBlocks.  A stride is the same along all axes.  *)
(***************************************************************************)

PatchChoices == {16, 24, 32, 40}

Abs(x) == IF x < 0 THEN -x ELSE x

Min2(x, y) == IF x <= y THEN x ELSE y

SeqMax(q) == CHOOSE m \in {q[i] : i \in 1..Len(q)} : \A i \in 1..Len(q) : q[i] <= m

RECURSIVE Pow(_, _)
Pow(x, n) == IF n = 0 THEN 1 ELSE x * Pow(x, n - 1)

\* OptInit: blocks and reduce_ratios for pool_op_kernel_sizes_len = len(strides)
OptInit(len) ==
    [pool_op_kernel_sizes_len |-> len,
     blocks |-> [i \in 1..len |-> 1],
     reduce_ratios |-> <<16, 8, 4, 2>> \o [i \in 1..(len - 4) |-> 1]]

\* img_shape_list: patch_size, then one floor division per entry of strides[1:]
RECURSIVE ImgShapeList(_, _)
ImgShapeList(patch_size, strides) ==
    IF Len(strides) <= 1 THEN <<patch_size>>
    ELSE LET front == ImgShapeList(patch_size, SubSeq(strides, 1, Len(strides) - 1))
             last == front[Len(front)]
         IN  Append(front, [ax \in 1..Len(patch_size) |->
                               last[ax] \div strides[Len(strides)]])

k_candidate_list == <<2, 4, 8, 16, 32>>

\* min(k_candidate_list, key=lambda x: abs(x - max_num)): the first of the nearest
NearestCandidate(max_num) ==
    LET d(i) == Abs(k_candidate_list[i] - max_num)
        best == CHOOSE i \in 1..Len(k_candidate_list) :
                   /\ \A j \in 1..Len(k_candidate_list) : d(i) <= d(j)
                   /\ \A j \in 1..(i - 1) : d(j) > d(i)
    IN  k_candidate_list[best]

\* k_list of SwinGNNBlocks and PoolGNNBlocks
KList(min_k, max_k, len) ==
    LET base == <<Min2(min_k, max_k), Min2(min_k * 2, max_k), Min2(min_k * 2, max_k),
                  Min2(min_k * 4, max_k), Min2(min_k * 8, max_k)>>
    IN  IF len >= 5
        THEN base \o [i \in 1..(len - 5) |-> Min2(min_k * 16, max_k)]
        ELSE SubSeq(base, 1, len)

\* max_num, max_k, min_k, k_list and max_dilation, the same code in both
\* classes; max(k_list) = 0 is a division by zero
KnnParams(img_min_shape, len) ==
    LET positions == Prod(img_min_shape)
        max_num == positions \div (IF Len(img_min_shape) = 2 THEN 2 ELSE 3)
        max_k == NearestCandidate(max_num)
        min_k == max_num \div Pow(2, Len(img_min_shape))
        k_list == KList(min_k, max_k, len)
    IN  IF SeqMax(k_list) = 0
        THEN [err |-> TRUE, positions |-> positions, max_k |-> max_k,
              k_list |-> k_list, max_dilation |-> 0]
        ELSE [err |-> FALSE, positions |-> positions, max_k |-> max_k,
              k_list |-> k_list, max_dilation |-> positions \div SeqMax(k_list)]

\* PoolGrapher.__init__: pool_size, n and the size (n, n // r**dim) the
\* relative-position tensor is interpolated to
PoolGrapherInit(img_shape, img_min_shape, r) ==
    LET n_small == Prod([i \in 1..Len(img_min_shape) |-> img_min_shape[i] * 4])
        pool_size == IF Prod(img_shape) > n_small
                     THEN [i \in 1..Len(img_shape) |->
                              IF img_shape[i] % 2 = 0 THEN 2 ELSE 1]
                     ELSE [i \in 1..Len(img_shape) |-> 1]
        n == Prod(img_shape) \div Prod(pool_size)
    IN  [pool_size |-> pool_size, n |-> n, r |-> r,
         relative_pos |-> <<n, n \div Pow(r, Len(img_shape))>>]

NoGrapher == [pool_size |-> <<>>, n |-> 0, r |-> 0, relative_pos |-> <<0, 0>>]

\* PoolGNNBlocks.__init__(channels, img_shape, index, stage_num, opt): the one
\* block of the stage (blocks_num_list[index] = 1, idx = index)
PoolGNNBlocksInit(img_shape, index, stage_num, opt, img_min_shape) ==
    LET knn == KnnParams(img_min_shape, opt.pool_op_kernel_sizes_len)
        idx == index
    IN  IF knn.err
        THEN [err |-> TRUE, knn |-> knn, k |-> 0, dilation |-> 0, grapher |-> NoGrapher]
        ELSE [err |-> FALSE, knn |-> knn,
              k |-> knn.k_list[index + stage_num + 1],
              dilation |-> Min2(idx \div 4 + 1, knn.max_dilation),
              grapher |-> PoolGrapherInit(img_shape, img_min_shape,
                                          opt.reduce_ratios[index + stage_num + 1])]

\* SwinGNNBlocks.__init__(channels, img_shape, index, opt)
SwinGNNBlocksInit(img_shape, index, opt, img_min_shape) ==
    LET knn == KnnParams(img_min_shape, opt.pool_op_kernel_sizes_len)
        idx == index
    IN  IF knn.err
        THEN [err |-> TRUE, knn |-> knn, k |-> 0, dilation |-> 0,
              window_size |-> img_min_shape]
        ELSE [err |-> FALSE, knn |-> knn,
              k |-> knn.k_list[index + 1],
              dilation |-> Min2(idx \div 4 + 1, knn.max_dilation),
              window_size |-> img_min_shape]

\* PoolDyGraphConv.forward on a feature map of shape x_shape: the nodes left
\* by max_pool_input and the nodes of y = avg_pool(x, r, r); without y the
\* neighbours are searched among the nodes themselves
PoolDyGraphConvForward(x_shape, pool_size, r) ==
    LET pooled == [i \in 1..Len(x_shape) |-> x_shape[i] \div pool_size[i]]
    IN  [nodes |-> Prod(pooled),
         reduced |-> IF r > 1
                     THEN Prod([i \in 1..Len(pooled) |-> pooled[i] \div r])
                     ELSE Prod(pooled)]

NoBlocks == [stage |-> NoArg, img_shape |-> <<>>, img_min_shape |-> <<>>]
NoGraph == [nodes |-> 0, reduced |-> 0]

\* patch sizes and strides (strides[0] = 1) that leave every stage a feature map
GnnInputs ==
    {i \in UNION {[patch_size : [1..dim -> PatchChoices],
                   n_stages : {n},
                   strides : {st \in [1..n -> StrideChoices] : st[1] = 1}]
                  : <<dim, n>> \in {2, 3} \X (GnnStageCount..MaxStages)} :
        \A ax \in 1..Len(i.patch_size) :
            ImgShapeList(i.patch_size, i.strides)[i.n_stages][ax] >= 1}

(***************************************************************************)
(* MRConv.forward                                                          *)
(*                                                                         *)
(* A tensor of shape (1, C, N, 1) is a function from the channel to the    *)
(* node to the value, both counted from 0; edge_index[0][i][k] is the k-th *)
(* neighbour of node i and edge_index[1][i][k] its centre, as the dense    *)
(* kNN graph of the repository builds them.                                *)
(***************************************************************************)

MaxNodes == 2

MRChannels == {0, 1}
MRNeighbours == {0, 1}
FeatureValues == {0, 1}

SetMax(S) == CHOOSE m \in S : \A v \in S : v <= m

\* batched_index_select(x, idx): out[c][i][k] = x[c][idx[i][k]]
batched_index_select(t, idx) ==
    [c \in DOMAIN t |-> [i \in DOMAIN idx |-> [k \in DOMAIN idx[i] |-> t[c][idx[i][k]]]]]

\* torch.max(x_j - x_i, -1, keepdim=True)
MaxRelative(x_j, x_i) ==
    [c \in DOMAIN x_j |-> [i \in DOMAIN x_j[c] |->
        SetMax({x_j[c][i][k] - x_i[c][i][k] : k \in DOMAIN x_j[c][i]})]]

\* torch.cat([x.unsqueeze(2), x_j.unsqueeze(2)], dim=2).reshape(b, 2 * c, n, _):
\* element (ch, t, i) of the (c, 2, n) tensor has flat index (ch * 2 + t) * n + i
CatReshape(x, agg, c, n) ==
    LET stacked(ch, t, i) == IF t = 0 THEN x[ch][i] ELSE agg[ch][i]
        flat(f) == stacked(f \div (2 * n), (f \div n) % 2, f % n)
    IN  [ch \in 0..(2 * c - 1) |-> [i \in 0..(n - 1) |-> flat(ch * n + i)]]

\* a plausible slip: the two tensors concatenated along the channels (dim=1)
CatChannels(x, agg, c, n) ==
    [ch \in 0..(2 * c - 1) |-> [i \in 0..(n - 1) |->
        IF ch < c THEN x[ch][i] ELSE agg[ch - c][i]]]

MRConv_forward_Stacked(x, edge_index, has_y, y) ==
    LET x_i == batched_index_select(x, edge_index[2])
        x_j == IF has_y THEN batched_index_select(y, edge_index[1])
               ELSE batched_index_select(x, edge_index[1])
    IN  CatChannels(x, MaxRelative(x_j, x_i), Cardinality(DOMAIN x),
                    Cardinality(DOMAIN x[0]))

\* MRConv.forward up to the tensor handed to self.nn; edge_index[1] and
\* edge_index[2] stand for edge_index[0] and edge_index[1]
MRConv_forward(x, edge_index, has_y, y) ==
    LET x_i == batched_index_select(x, edge_index[2])
        x_j == IF has_y THEN batched_index_select(y, edge_index[1])
               ELSE batched_index_select(x, edge_index[1])
    IN  CatReshape(x, MaxRelative(x_j, x_i), Cardinality(DOMAIN x),
                   Cardinality(DOMAIN x[0]))

Features(n) == [MRChannels -> [0..(n - 1) -> FeatureValues]]

\* the graph of n centres with neighbours among m nodes
EdgeIndices(n, m) ==
    {<<nbr, [i \in 0..(n - 1) |-> [k \in MRNeighbours |-> i]]>> :
        nbr \in [0..(n - 1) -> [MRNeighbours -> 0..(m - 1)]]}

NoY == <<>>

NetIdle ==
    /\ cfg = None /\ enc = None /\ dec = None
    /\ enc_ret = None /\ fwd = None /\ dec_ret = None

WinIdle == win = None

GraphIdle == gnn = None /\ mr = None

NSDIdle ==
    /\ a = {} /\ b = {} /\ threshold = 0 /\ spacing = NoSpacing /\ nsd = None

InitNSD ==
    /\ pc = "nsd_start"
    /\ a \in Images
    /\ b \in Images
    /\ threshold = 0
    /\ spacing = NoSpacing
    /\ nsd = None
    /\ NetIdle
    /\ WinIdle
    /\ GraphIdle

\* a call normalized_surface_dice(a, b, t, sp)
CallNSD ==
    /\ pc = "nsd_start"
    /\ \E t \in Thresholds, sp \in Spacings :
          /\ threshold' = t
          /\ spacing' = sp
          /\ nsd' = normalized_surface_dice(a, b, t, sp)
    /\ pc' = "nsd_done"
    /\ UNCHANGED <<a, b, netVars, winVars, graphVars>>

NextNSD == CallNSD

SpecNSD == InitNSD /\ [][NextNSD]_vars

(***************************************************************************)
(* The network: construction, then one forward pass.                       *)
(***************************************************************************)
InitNet ==
    /\ pc = "net_new"
    /\ cfg \in Configs
    /\ enc = None /\ dec = None /\ enc_ret = None /\ fwd = None /\ dec_ret = None
    /\ NSDIdle
    /\ WinIdle
    /\ GraphIdle

\* encoder = NexToU_Encoder(...)
ConstructEncoder ==
    /\ pc = "net_new"
    /\ enc' = NexToU_Encoder_init(cfg)
    /\ pc' = "net_encoder"
    /\ UNCHANGED <<cfg, dec, enc_ret, fwd, dec_ret, nsdVars, winVars, graphVars>>

\* decoder = NexToU_Decoder(encoder, ...)
ConstructDecoder ==
    /\ pc = "net_encoder"
    /\ dec' = NexToU_Decoder_init(enc, cfg)
    /\ pc' = "net_built"
    /\ UNCHANGED <<cfg, enc, enc_ret, fwd, dec_ret, nsdVars, winVars, graphVars>>

\* skips = encoder(x)
EncoderForward ==
    /\ pc = "net_built"
    /\ enc_ret' = NexToU_Encoder_forward(enc, InputTensor(cfg))
    /\ pc' = IF enc.return_skips THEN "net_encoded" ELSE "net_encoded_last"
    /\ UNCHANGED <<cfg, enc, dec, fwd, dec_ret, nsdVars, winVars, graphVars>>

\* decoder(skips): lres_input = skips[-1]; seg_outputs = []
DecoderForwardStart ==
    /\ pc = "net_encoded"
    /\ fwd' = [s |-> 0, lres_input |-> PyIdx(enc_ret, -1), seg_outputs |-> <<>>,
               used |-> <<>>]
    /\ pc' = "net_decoding"
    /\ UNCHANGED <<cfg, enc, dec, enc_ret, dec_ret, nsdVars, winVars, graphVars>>

\* one iteration of for s in range(len(self.stages))
DecoderForwardStage ==
    /\ pc = "net_decoding"
    /\ fwd.s < Len(dec.stages)
    /\ LET s == fwd.s
           skip == PyIdx(enc_ret, SkipIndex(s))
           x == ApplyDecoderStage(dec, s,
                    Cat(ApplyTranspConv(dec, s, fwd.lres_input), skip))
           seg_outputs ==
               IF dec.deep_supervision
               THEN Append(fwd.seg_outputs, ApplySegLayer(dec, s, x))
               ELSE IF s = Len(dec.stages) - 1
               THEN Append(fwd.seg_outputs, ApplySegLayer(dec, -1, x))
               ELSE fwd.seg_outputs
       IN  fwd' = [s |-> s + 1, lres_input |-> x, seg_outputs |-> seg_outputs,
                   used |-> Append(fwd.used, PyPos(enc_ret, SkipIndex(s)))]
    /\ UNCHANGED <<pc, cfg, enc, dec, enc_ret, dec_ret, nsdVars, winVars, graphVars>>

\* the end of the loop: invert the outputs and return
DecoderForwardReturn ==
    /\ pc = "net_decoding"
    /\ fwd.s = Len(dec.stages)
    /\ dec_ret' = DecoderResult(dec, fwd.seg_outputs)
    /\ pc' = "net_done"
    /\ UNCHANGED <<cfg, enc, dec, enc_ret, fwd, nsdVars, winVars, graphVars>>

NextNet ==
    \/ ConstructEncoder
    \/ ConstructDecoder
    \/ EncoderForward
    \/ DecoderForwardStart
    \/ DecoderForwardStage
    \/ DecoderForwardReturn

SpecNet == InitNet /\ [][NextNet]_vars

(***************************************************************************)
(* The windows: partition, then reverse.                                   *)
(***************************************************************************)
InitWin ==
    /\ pc = "win_start"
    /\ win \in WindowInputs
    /\ NSDIdle
    /\ NetIdle
    /\ GraphIdle

\* x_windows = window_partition(shifted_x, self.window_size)
WindowPartition ==
    /\ pc = "win_start"
    /\ win' = [win EXCEPT !.windows = window_partition(win.x, win.window_size)]
    /\ pc' = "win_windows"
    /\ UNCHANGED <<nsdVars, netVars, graphVars>>

\* shifted_x = window_reverse(gnn_windows, self.window_size, size_tuple)
WindowReverse ==
    /\ pc = "win_windows"
    /\ win' = [win EXCEPT !.back =
                  window_reverse(win.windows, win.window_size,
                                 SubSeq(win.x.shape, 3, Len(win.x.shape)))]
    /\ pc' = "win_done"
    /\ UNCHANGED <<nsdVars, netVars, graphVars>>

NextWin == WindowPartition \/ WindowReverse

SpecWin == InitWin /\ [][NextWin]_vars

(***************************************************************************)
(* The graph blocks of one of the last four encoder stages: construction,  *)
(* then a forward pass of its PoolGrapher.                                 *)
(***************************************************************************)
InitGnn ==
    /\ pc = "gnn_new"
    /\ \E i \in GnnInputs : gnn = [in |-> i, at |-> NoBlocks, graph |-> NoGraph]
    /\ mr = None
    /\ NSDIdle
    /\ NetIdle
    /\ WinIdle

\* the PoolGNNBlocks and SwinGNNBlocks of stage s in NexToU_Encoder.__init__
BuildGnnBlocks ==
    /\ pc = "gnn_new"
    /\ \E s \in (gnn.in.n_stages - GnnStageCount)..(gnn.in.n_stages - 1) :
          LET img_shape_list == ImgShapeList(gnn.in.patch_size, gnn.in.strides)
              img_min_shape == img_shape_list[Len(img_shape_list)]
              opt == OptInit(Len(gnn.in.strides))
              no_pool_gnn_stage_num == gnn.in.n_stages - GnnStageCount
              n_conv_stages == no_pool_gnn_stage_num - n_swin_gnn_stages
              pool == PoolGNNBlocksInit(img_shape_list[s + 1], s - no_pool_gnn_stage_num,
                                        no_pool_gnn_stage_num, opt, img_min_shape)
              swin == SwinGNNBlocksInit(img_shape_list[s + 1], s - n_conv_stages, opt,
                                        img_min_shape)
          IN  /\ gnn' = [in |-> gnn.in,
                         at |-> [stage |-> s, img_shape |-> img_shape_list[s + 1],
                                 img_min_shape |-> img_min_shape],
                         pool |-> pool, swin |-> swin, graph |-> NoGraph]
              /\ pc' = IF pool.err \/ swin.err THEN "gnn_error" ELSE "gnn_built"
    /\ UNCHANGED <<mr, nsdVars, netVars, winVars>>

\* PoolGrapher.forward on the feature map of the stage
PoolGrapherForward ==
    /\ pc = "gnn_built"
    /\ gnn' = [gnn EXCEPT !.graph =
                  PoolDyGraphConvForward(gnn.at.img_shape, gnn.pool.grapher.pool_size,
                                         gnn.pool.grapher.r)]
    /\ pc' = "gnn_done"
    /\ UNCHANGED <<mr, nsdVars, netVars, winVars>>

NextGnn == BuildGnnBlocks \/ PoolGrapherForward

SpecGnn == InitGnn /\ [][NextGnn]_vars

(***************************************************************************)
(* One call of MRConv.forward: on x alone, or on x with the features y of  *)
(* a reduced set of nodes.                                                 *)
(***************************************************************************)
InitMR ==
    /\ pc = "mr_new"
    /\ \E x \in Features(MaxNodes) :
          \/ \E e \in EdgeIndices(MaxNodes, MaxNodes) :
                mr = [in |-> [x |-> x, has_y |-> FALSE, y |-> NoY, edge_index |-> e],
                      out |-> <<>>]
          \/ \E y \in Features(MaxNodes - 1), e \in EdgeIndices(MaxNodes, MaxNodes - 1) :
                mr = [in |-> [x |-> x, has_y |-> TRUE, y |-> y, edge_index |-> e],
                      out |-> <<>>]
    /\ gnn = None
    /\ NSDIdle
    /\ NetIdle
    /\ WinIdle

MRConvForward ==
    /\ pc = "mr_new"
    /\ mr' = [mr EXCEPT !.out = MRConv_forward(mr.in.x, mr.in.edge_index,
                                               mr.in.has_y, mr.in.y)]
    /\ pc' = "mr_done"
    /\ UNCHANGED <<gnn, nsdVars, netVars, winVars>>

NextMR == MRConvForward

SpecMR == InitMR /\ [][NextMR]_vars

(***************************************************************************)
(* C1: normalized_surface_dice is symmetric in its two images: the call    *)
(* with a and b swapped raises exactly when the call did, and gives the    *)
(* same dice value for the same threshold and spacing.                     *)
(***************************************************************************)
C1_Symmetric ==
    pc = "nsd_done" =>
        LET swapped == normalized_surface_dice(b, a, threshold, spacing)
        IN  /\ nsd.err = swapped.err
            /\ nsd.dc = swapped.dc

\* two images with different numbers of surface cells and of misses
C1_Witness ==
    /\ pc = "nsd_done"
    /\ ~nsd.err
    /\ a # b
    /\ nsd.tp_a # nsd.tp_b
    /\ nsd.fp # nsd.fn
    /\ spacing # NoSpacing /\ spacing[1] # spacing[2]

\* the spacing the distances of the state were measured with, written out
EffectiveSpacing == IF spacing = NoSpacing THEN <<1, 1>> ELSE spacing

(***************************************************************************)
(* C2: the true positives are exactly the surface distances strictly       *)
(* below the threshold, and every distance that is not below the           *)
(* threshold is a false positive (a to b) or a false negative (b to a).    *)
(***************************************************************************)
C2_StrictlyBelow ==
    (pc = "nsd_done" /\ ~nsd.err) =>
        LET a_to_b == surface_distances(a, b, EffectiveSpacing).sds
            b_to_a == surface_distances(b, a, EffectiveSpacing).sds
            Below(sds) == {p \in DOMAIN sds : BelowThreshold(sds[p], threshold)}
        IN  /\ nsd.tp_a = Cardinality(Below(a_to_b))
            /\ nsd.tp_b = Cardinality(Below(b_to_a))
            /\ nsd.fp = Cardinality(DOMAIN a_to_b \ Below(a_to_b))
            /\ nsd.fn = Cardinality(DOMAIN b_to_a \ Below(b_to_a))

(***************************************************************************)
(* C3: with spacing=None the result is the result for the spacing          *)
(* (1, ..., 1) with one entry per axis of image a.                         *)
(***************************************************************************)
C3_NoneIsIsotropicOne ==
    (pc = "nsd_done" /\ spacing = NoSpacing) =>
        nsd = normalized_surface_dice(a, b, threshold, [i \in 1..Len(Shape) |-> 1])

\* a call without spacing in which some distances are within the threshold
\* and some are not
C3_Witness ==
    /\ pc = "nsd_done"
    /\ spacing = NoSpacing
    /\ ~nsd.err
    /\ nsd.tp_a > 0
    /\ nsd.fp > 0

Kinds(blocks) == [j \in 1..Len(blocks) |-> blocks[j].kind]

ConvOnly == <<"StackedResidualBlocks">>
ConvPoolSwin == <<"StackedResidualBlocks", "PoolGNNBlocks", "SwinGNNBlocks">>

EncoderBuilt ==
    pc \in {"net_encoder", "net_built", "net_encoded", "net_encoded_last",
            "net_decoding", "net_done"}

DecoderBuilt ==
    pc \in {"net_built", "net_encoded", "net_encoded_last", "net_decoding", "net_done"}

EncoderRan == pc \in {"net_encoded", "net_encoded_last", "net_decoding", "net_done"}

(***************************************************************************)
(* C4: with deep supervision NexToU_Decoder.forward returns one            *)
(* segmentation output per decoder stage, the output of the last computed  *)
(* (highest-resolution) stage first and that of the first stage last;      *)
(* without it, it returns the last stage's features passed through the     *)
(* last segmentation layer, and no other segmentation layer is applied.    *)
(***************************************************************************)
C4_DecoderOutputs ==
    pc = "net_done" =>
        LET n == cfg.n_stages
            last == fwd.lres_input
        IN  IF cfg.deep_supervision
            THEN /\ Len(dec_ret) = n - 1
                 /\ \A i \in 1..(n - 1) :
                       LET h == dec_ret[i].hist
                       IN  /\ h[Len(h)] = Op("decoder.seg_layers", n - 1 - i)
                           /\ h[Len(h) - 1] = Op("decoder.stages", n - 1 - i)
                 /\ \A i \in 1..(n - 2) : dec_ret[i].down <= dec_ret[i + 1].down
                 /\ dec_ret[1].hist = Append(last.hist, Op("decoder.seg_layers", n - 2))
            ELSE /\ dec_ret.hist = Append(last.hist, Op("decoder.seg_layers", n - 2))
                 /\ dec_ret.ch = cfg.num_classes
                 /\ Len(fwd.seg_outputs) = 1
                 /\ Cardinality({j \in 1..Len(dec_ret.hist) :
                                    dec_ret.hist[j].m = "decoder.seg_layers"}) = 1

\* a deep-supervision pass whose first output is finer than its last one
C4_Witness ==
    /\ pc = "net_done"
    /\ cfg.deep_supervision
    /\ Len(dec_ret) >= 3
    /\ dec_ret[1].down < dec_ret[Len(dec_ret)].down

\* what a tensor went through up to and including encoder stage k - 1
EncoderHist(k) ==
    (IF cfg.disable_default_stem THEN <<>> ELSE <<Op("encoder.stem", 0)>>)
    \o [j \in 1..k |-> Op("encoder.stages", j - 1)]

(***************************************************************************)
(* C5: NexToU_Encoder.forward applies the stem, if any, and then the       *)
(* stages in index order, each on the previous one's output; with          *)
(* return_skips it returns all n_stages outputs in order of computation,   *)
(* without it only the last one, which is the last entry of the list.      *)
(***************************************************************************)
C5_EncoderForward ==
    EncoderRan =>
        LET n == cfg.n_stages
            all == NexToU_Encoder_forward([enc EXCEPT !.return_skips = TRUE],
                                          InputTensor(cfg))
        IN  IF cfg.return_skips
            THEN /\ Len(enc_ret) = n
                 /\ \A k \in 1..n : enc_ret[k].hist = EncoderHist(k)
            ELSE /\ enc_ret.hist = EncoderHist(n)
                 /\ enc_ret = all[Len(all)]

\* a pass through stem and stages that returns the bottleneck alone
C5_Witness ==
    /\ pc = "net_encoded_last"
    /\ ~cfg.disable_default_stem
    /\ Len(enc_ret.hist) = cfg.n_stages + 1

\* what the decoder's running tensor went through after k decoder stages
DecoderHist(k) ==
    LET n == cfg.n_stages
    IN  enc_ret[n].hist
        \o [i \in 1..(3 * k) |->
               LET s == (i - 1) \div 3
               IN  CASE (i - 1) % 3 = 0 -> Op("decoder.transpconvs", s)
                     [] (i - 1) % 3 = 1 -> Op("cat", n - 2 - s)
                     [] OTHER -> Op("decoder.stages", s)]

(***************************************************************************)
(* C6: the decoder stages run from the lowest to the highest resolution:   *)
(* stage 0 takes the bottleneck skips[-1] and skips[-2], stage s the       *)
(* output of stage s-1 and skips[-(s+2)]; over a pass every skip but the   *)
(* bottleneck is consumed exactly once, skips[0] by the last stage.        *)
(***************************************************************************)
C6_DecoderOrder ==
    pc \in {"net_decoding", "net_done"} =>
        LET n == cfg.n_stages
        IN  /\ fwd.lres_input.hist = DecoderHist(fwd.s)
            /\ Len(fwd.used) = fwd.s
            /\ \A j \in 1..Len(fwd.used) : fwd.used[j] = n - 1 - j
            /\ pc = "net_done" =>
                  /\ fwd.s = n - 1
                  /\ \A k \in 0..(n - 2) :
                        Cardinality({j \in 1..Len(fwd.used) : fwd.used[j] = k}) = 1
                  /\ fwd.used[Len(fwd.used)] = 0
                  /\ \A j \in 1..Len(fwd.used) : fwd.used[j] # n - 1

\* a finished pass through at least four decoder stages
C6_Witness ==
    /\ pc = "net_done"
    /\ Len(fwd.used) >= 4
    /\ fwd.used[1] = cfg.n_stages - 2

(***************************************************************************)
(* C7: NexToU_Decoder builds n_stages_encoder - 1 segmentation layers,     *)
(* transposed convolutions and stages whatever deep_supervision is, so     *)
(* the modules with parameters are the same with and without it.           *)
(***************************************************************************)
C7_AlwaysBuildsSegLayers ==
    DecoderBuilt =>
        LET n == Len(enc.output_channels)
            other == NexToU_Decoder_init(enc,
                         [cfg EXCEPT !.deep_supervision = ~cfg.deep_supervision])
        IN  /\ Len(dec.seg_layers) = n - 1
            /\ Len(dec.transpconvs) = n - 1
            /\ Len(dec.stages) = n - 1
            /\ dec.seg_layers = other.seg_layers
            /\ dec.transpconvs = other.transpconvs
            /\ dec.stages = other.stages

\* a decoder built without deep supervision
C7_Witness ==
    /\ pc = "net_built"
    /\ ~dec.deep_supervision
    /\ Len(dec.seg_layers) >= 3

GraphLevels(stages) ==
    {stages[k][j].level : <<k, j>> \in
        {kj \in (1..Len(stages)) \X (1..3) :
            /\ kj[2] <= Len(stages[kj[1]])
            /\ stages[kj[1]][kj[2]].kind # "StackedResidualBlocks"}}

(***************************************************************************)
(* C8: for n_stages >= 4 the encoder's first n_stages - 4 stages are       *)
(* residual blocks only and each of its last four stages is residual       *)
(* blocks, then PoolGNNBlocks, then SwinGNNBlocks; the decoder has the     *)
(* graph blocks on exactly its first three stages, at the levels           *)
(* n_stages-2, n_stages-3, n_stages-4, and is convolution-only after       *)
(* them: its graph levels are the encoder's without the bottleneck.        *)
(***************************************************************************)
C8_HybridStages ==
    DecoderBuilt =>
        LET n == cfg.n_stages
            encStages == [k \in 1..n |-> enc.stages[k].blocks]
        IN  /\ \A s \in 0..(n - 1) :
                  Kinds(enc.stages[s + 1].blocks) =
                      IF s < n - 4 THEN ConvOnly ELSE ConvPoolSwin
            /\ \A s \in 0..(n - 2) :
                  /\ Kinds(dec.stages[s + 1]) = IF s < 3 THEN ConvPoolSwin ELSE ConvOnly
                  /\ s < 3 => /\ dec.stages[s + 1][2].level = n - 2 - s
                              /\ dec.stages[s + 1][3].level = n - 2 - s
            /\ GraphLevels(encStages) = (n - 4)..(n - 1)
            /\ GraphLevels(dec.stages) = GraphLevels(encStages) \ {n - 1}

\* a network with convolution-only stages in encoder and decoder
C8_Witness ==
    /\ pc = "net_built"
    /\ cfg.n_stages > 4
    /\ Kinds(enc.stages[1].blocks) = ConvOnly
    /\ Kinds(dec.stages[Len(dec.stages)]) = ConvOnly

C10_PoolType ==
    EncoderBuilt =>
        LET n == cfg.n_stages
            Factor(k) == Prod([j \in 1..k |-> cfg.strides[j]])
        IN  /\ \A s \in 0..(n - 1) :
                  LET stage == enc.stages[s + 1]
                  IN  /\ IF cfg.pool_type = "conv"
                         THEN /\ stage.pool = NoPool
                              /\ stage.blocks[1].stride = cfg.strides[s + 1]
                         ELSE /\ stage.pool = cfg.strides[s + 1]
                              /\ stage.blocks[1].stride = 1
                      /\ \A j \in 2..Len(stage.blocks) : stage.blocks[j].stride = 1
            /\ EncoderRan =>
                  IF cfg.return_skips
                  THEN \A k \in 1..n : enc_ret[k].down = Factor(k)
                  ELSE enc_ret.down = Factor(n)

\* an encoder with max pooling and a stage of stride 2, after its forward
C10_Witness ==
    /\ pc = "net_encoded"
    /\ cfg.pool_type = "max"
    /\ cfg.strides[2] = 2
    /\ enc.stages[2].pool = 2
    /\ enc_ret[2].down > enc_ret[1].down

(***************************************************************************)
(* C11: the default stem does no stride or pooling: whatever strides and   *)
(* pool_type are, it is one convolution block of stride 1, so the tensor   *)
(* entering stage 0 has the spatial size of the network input and the      *)
(* first stage output is smaller than the input by strides[0] alone.       *)
(***************************************************************************)
C11_StemKeepsSize ==
    (EncoderBuilt /\ ~cfg.disable_default_stem) =>
        /\ enc.stem.present
        /\ enc.stem.n_convs = 1
        /\ enc.stem.stride = 1
        /\ pc \in {"net_encoded", "net_decoding", "net_done"} =>
              /\ enc_ret[1].hist = <<Op("encoder.stem", 0), Op("encoder.stages", 0)>>
              /\ enc_ret[1].down = cfg.strides[1]

\* a stem in front of a first stage of stride 2 that is preceded by a pooling
C11_Witness ==
    /\ pc = "net_encoded"
    /\ ~cfg.disable_default_stem
    /\ cfg.strides[1] = 2
    /\ cfg.pool_type = "avg"
    /\ enc_ret[1].down = 2

(***************************************************************************)
(* C12: the stem outputs features_per_stage[0] channels if stem_channels   *)
(* is None and stem_channels otherwise, and stage 0 takes that many        *)
(* channels; with disable_default_stem there is no stem, stage 0 takes     *)
(* the raw input_channels and forward feeds the input to stage 0.          *)
(***************************************************************************)
C12_StemChannels ==
    EncoderBuilt =>
        LET stage0 == enc.stages[1].blocks[1]
            first == IF cfg.return_skips THEN enc_ret[1] ELSE enc_ret
        IN  IF ~cfg.disable_default_stem
            THEN /\ enc.stem.present
                 /\ enc.stem.in_ch = cfg.input_channels
                 /\ enc.stem.out_ch = IF cfg.stem_channels = NoArg
                                      THEN cfg.features_per_stage[1]
                                      ELSE cfg.stem_channels
                 /\ stage0.in_ch = enc.stem.out_ch
                 /\ EncoderRan => first.hist[1] = Op("encoder.stem", 0)
            ELSE /\ ~enc.stem.present
                 /\ stage0.in_ch = cfg.input_channels
                 /\ EncoderRan => first.hist[1] = Op("encoder.stages", 0)

\* an encoder whose stem has its own number of channels, after its forward
C12_Witness ==
    /\ pc = "net_encoded"
    /\ ~cfg.disable_default_stem
    /\ cfg.stem_channels # NoArg
    /\ cfg.stem_channels # cfg.features_per_stage[1]
    /\ enc.stages[1].blocks[1].in_ch = cfg.stem_channels

(***************************************************************************)
(* C13: the relative-position tensor of a PoolGrapher has as many rows as  *)
(* there are nodes after the max pooling and as many columns, n // r^dim,  *)
(* as there are reduced nodes after the average pooling with kernel and    *)
(* stride r, for every img_shape and every reduce ratio.                   *)
(***************************************************************************)
C13_RelativePosMatchesGraph ==
    pc = "gnn_done" =>
        /\ gnn.pool.grapher.relative_pos[1] = gnn.graph.nodes
        /\ gnn.pool.grapher.relative_pos[2] = gnn.graph.reduced

(***************************************************************************)
(* C14: for every img_min_shape and number of stages the parameters are    *)
(* computed without error, every k of k_list is between 1 and max_k, the   *)
(* dilation of each grapher is at least 1, and k * dilation is at most     *)
(* the number of positions of img_min_shape.                               *)
(***************************************************************************)
C14_KnnParamsUsable ==
    pc \in {"gnn_built", "gnn_error", "gnn_done"} =>
        /\ pc # "gnn_error"
        /\ ~gnn.pool.err /\ ~gnn.swin.err
        /\ \A i \in 1..Len(gnn.pool.knn.k_list) :
              /\ 1 <= gnn.pool.knn.k_list[i]
              /\ gnn.pool.knn.k_list[i] <= gnn.pool.knn.max_k
        /\ gnn.pool.dilation >= 1 /\ gnn.swin.dilation >= 1
        /\ gnn.pool.k * gnn.pool.dilation <= gnn.pool.knn.positions
        /\ gnn.swin.k * gnn.swin.dilation <= gnn.swin.knn.positions

(***************************************************************************)
(* C15: MRConv aggregates by the maximum relative feature: for node i and  *)
(* channel c the aggregated value is the maximum, over the neighbours j    *)
(* that edge_index lists for i, of feature_j[c] - x_i[c], the neighbour    *)
(* features taken from y when y is given and from x otherwise; the tensor  *)
(* handed to the convolution has 2*C channels, channel 2c holding x_i[c]   *)
(* and channel 2c+1 the aggregated value, and as many nodes as x.          *)
(***************************************************************************)
C15_MaxRelative ==
    pc = "mr_done" =>
        LET x == mr.in.x
            feature == IF mr.in.has_y THEN mr.in.y ELSE mr.in.x
            nbrs == mr.in.edge_index[1]
            C == Cardinality(DOMAIN x)
        IN  /\ DOMAIN mr.out = 0..(2 * C - 1)
            /\ \A ch \in DOMAIN mr.out : DOMAIN mr.out[ch] = DOMAIN x[0]
            /\ \A c \in DOMAIN x : \A i \in DOMAIN x[c] :
                  /\ mr.out[2 * c][i] = x[c][i]
                  /\ \A k \in DOMAIN nbrs[i] :
                        mr.out[2 * c + 1][i] >= feature[c][nbrs[i][k]] - x[c][i]
                  /\ \E k \in DOMAIN nbrs[i] :
                        mr.out[2 * c + 1][i] = feature[c][nbrs[i][k]] - x[c][i]

C15_Witness ==
    /\ pc = "mr_done"
    /\ mr.in.has_y
    /\ mr.in.x[0][0] = 1 /\ mr.in.x[1][0] = 0 /\ mr.in.x[0][1] = 0
    /\ mr.in.y[0][0] = 0 /\ mr.in.y[1][0] = 1
    /\ mr.out[0][0] = 1 /\ mr.out[1][0] = -1
    /\ mr.out[2][0] = 0 /\ mr.out[3][0] = 1

=============================================================================
